---- MODULE Spec2Model ----
(***************************************************************************)
(* Hand-tracking 3D demo: the application loop (main.ts), the reactive     *)
(* audio engine (audioEngine.ts) and the video recorder (videoRecorder.ts) *)
(* as one state machine.                                                   *)
(*                                                                         *)
(* Numbers.  The program computes with IEEE doubles.  Here every scalar is *)
(* a fixed-point integer, U units per 1.0, and a division rounds down      *)
(* (\div).  U is a multiple of 1..10, so the running mean of up to ten     *)
(* wrist samples taken on the grid U/5 is exact, and of 200, so that the   *)
(* program's constants 0.005, 0.01, 0.05 and 0.3 are exact.  Times are     *)
(* milliseconds.                                                           *)
(***************************************************************************)
EXTENDS Integers, Sequences, FiniteSets, TLC

VARIABLES
  \* main.ts: gesture-to-transform mapper
  hand0Position, hand1Position, targetPan, targetRotation, targetZoom,
  isHandControlled, hand0Calibration, hand1Calibration, calibrationFrames,
  \* main.ts: animation loop
  currentRotation, currentZoom, cubeGroup,
  previousRotation, previousPan, previousZoom, lastUpdateTime,
  \* main.ts: session
  handLandmarker, modelLoad, isInitialized, detectionLoopRunning,
  currentStream, liveStreams, videoRecorder, initPc, detectPending,
  lastVideoTime, ui,
  \* the DynamicAudioEngine instance and the VideoRecorder instance with
  \* the browser's MediaRecorder objects and downloads
  audio, recorder,
  \* the environment and the history the properties speak of
  now, animFrames, lastResults, handRun, wristRun

gestureVars == <<hand0Position, hand1Position, targetPan, targetRotation,
                 targetZoom, isHandControlled, hand0Calibration,
                 hand1Calibration, calibrationFrames>>
animVars == <<currentRotation, currentZoom, cubeGroup, previousRotation,
              previousPan, previousZoom, lastUpdateTime>>
sessionVars == <<handLandmarker, modelLoad, isInitialized,
                 detectionLoopRunning, currentStream, liveStreams,
                 videoRecorder, initPc, detectPending, lastVideoTime>>
historyVars == <<lastResults, handRun, wristRun>>
vars == <<gestureVars, animVars, sessionVars, ui, audio, recorder,
          now, animFrames, historyVars>>

----------------------------------------------------------------------------
\* Fixed-point arithmetic

U == 2520 * 5
PI == (31416 * U) \div 10000

Abs(a) == IF a < 0 THEN -a ELSE a
Min(a, b) == IF a < b THEN a ELSE b

RECURSIVE SqrtSearch(_, _, _)
SqrtSearch(n, lo, hi) ==
  IF lo >= hi THEN lo
  ELSE LET mid == (lo + hi + 1) \div 2
       IN  IF mid * mid <= n THEN SqrtSearch(n, mid, hi)
           ELSE SqrtSearch(n, lo, mid - 1)
Sqrt(n) == SqrtSearch(n, 0, 46340)

Vec(a, b, c) == [x |-> a, y |-> b, z |-> c]
Zero == Vec(0, 0, 0)
NULL == "null"
\* null where the other values are records
NONE == [none |-> TRUE]

\* THREE.Vector3.distanceTo / the pinch distance of processHandResults
Distance(p, q) ==
  Sqrt((p.x - q.x) * (p.x - q.x) + (p.y - q.y) * (p.y - q.y)
       + (p.z - q.z) * (p.z - q.z))

\* THREE.Vector3.lerp(v, 0.1): this += (v - this) * alpha
ScalarLerpMutant(a, b) == b
ScalarLerp(a, b) == a + (b - a) \div 10
VecLerp(p, q) == Vec(ScalarLerp(p.x, q.x), ScalarLerp(p.y, q.y),
                     ScalarLerp(p.z, q.z))

\* THREE.MathUtils.lerp(x, y, 0.1): (1 - t) * x + t * y
MathLerp(a, b) == (9 * a + b) \div 10

----------------------------------------------------------------------------
\* processHandResults (main.ts)

CALIBRATION_FRAME_COUNT == 10

\* a detection result is a record [outcome, landmarks]; a hand of landmarks
\* is [wrist, thumb, index, label]: landmarks 0, 4 and 8 and the category
\* name of handednesses[i][0] ("" when there is none)
Hand(results, i) == results.landmarks[i + 1]
HandCount(results) == Len(results.landmarks)

\* the loop at lines 346-355 leaves the last index of each label
LastIndexOf(results, name) ==
  LET S == {i \in 0..(HandCount(results) - 1) : Hand(results, i).label = name}
  IN  IF S = {} THEN -1 ELSE CHOOSE i \in S : \A j \in S : j <= i

leftHandIndex(results) ==
  LET l == LastIndexOf(results, "Left")
      r == LastIndexOf(results, "Right")
  IN  IF l = -1 /\ r = -1 THEN 0
      ELSE IF l = -1 THEN r
      ELSE l

rightHandIndex(results) ==
  LET l == LastIndexOf(results, "Left")
      r == LastIndexOf(results, "Right")
  IN  IF l = -1 /\ r = -1 THEN (IF HandCount(results) > 1 THEN 1 ELSE -1)
      ELSE IF l = -1 THEN -1
      ELSE r

rotationHandIndexSwapped(results) ==
  IF rightHandIndex(results) >= 0 THEN rightHandIndex(results) ELSE 0
rotationHandIndex(results) ==
  IF leftHandIndex(results) >= 0 THEN leftHandIndex(results) ELSE 0

zoomHandIndex(results) ==
  IF rightHandIndex(results) >= 0 THEN rightHandIndex(results)
  ELSE IF HandCount(results) > 1 THEN 1 ELSE -1

HasZoomHand(results) ==
  zoomHandIndex(results) >= 0 /\ zoomHandIndex(results) < HandCount(results)

\* (avg * (n - 1) + sample) / n, per coordinate
RunningAverage(avg, sample, n) ==
  Vec((avg.x * (n - 1) + sample.x) \div n,
      (avg.y * (n - 1) + sample.y) \div n,
      (avg.z * (n - 1) + sample.z) \div n)

\* offset from the calibrated centre: x and y times 10 (y inverted), z times 5
RelativePosition(wrist, cal) ==
  Vec((wrist.x - cal.x) * 10, (cal.y - wrist.y) * 10, (wrist.z - cal.z) * 5)

\* calibrationFrames after the rotation hand's branch (lines 385-411)
FramesAfterRotationHand ==
  IF hand0Calibration = NONE THEN 1
  ELSE IF calibrationFrames < CALIBRATION_FRAME_COUNT
       THEN calibrationFrames + 1
       ELSE calibrationFrames

Hand0CalibrationAfter(wrist) ==
  IF hand0Calibration = NONE THEN wrist
  ELSE IF calibrationFrames < CALIBRATION_FRAME_COUNT
       THEN RunningAverage(hand0Calibration, wrist, calibrationFrames + 1)
       ELSE hand0Calibration

\* rotationHandX/Y/Z (lines 385-424)
CalibrationCompleteEarly(frames) == frames >= CALIBRATION_FRAME_COUNT - 1
CalibrationComplete(frames) == frames >= CALIBRATION_FRAME_COUNT

RotationHandOffset(wrist) ==
  IF hand0Calibration = NONE THEN Zero
  ELSE IF CalibrationComplete(FramesAfterRotationHand)
       THEN RelativePosition(wrist, Hand0CalibrationAfter(wrist))
       ELSE Zero

\* lines 493-510; calibrationFrames was already advanced by the rotation hand
Hand1CalibrationAfter(wrist) ==
  IF hand1Calibration = NONE THEN wrist
  ELSE IF FramesAfterRotationHand < CALIBRATION_FRAME_COUNT
       THEN RunningAverage(hand1Calibration, wrist, FramesAfterRotationHand)
       ELSE hand1Calibration

\* zoomHandX/Y/Z (lines 493-523)
ZoomHandOffset(wrist) ==
  IF hand1Calibration = NONE THEN Zero
  ELSE IF CalibrationComplete(FramesAfterRotationHand)
       THEN RelativePosition(wrist, Hand1CalibrationAfter(wrist))
       ELSE Zero

PinchDistance(hand) == Distance(hand.thumb, hand.index)

\* targetRotation.set(rotationX, rotationY, normalizedPinch), lines 437-440
RotationTarget(hand) ==
  Vec(((U \div 2 - hand.wrist.y) * PI) \div U,
      (((hand.wrist.x - U \div 2) * PI) \div U) * 2,
      PinchDistance(hand) * 10)

ZoomTargetClamped(hand) == Min(U \div 2 + (PinchDistance(hand) * 125) \div 10, U)

\* baseZoom + zoomHandPinchDistance * pinchScale, lines 538-541
ZoomTarget(hand) == U \div 2 + (PinchDistance(hand) * 125) \div 10

Average(p, q) == Vec((p.x + q.x) \div 2, (p.y + q.y) \div 2, (p.z + q.z) \div 2)

HandsStatus(n) == IF n > 1 THEN "2 hands detected" ELSE "1 hand detected"

\* the branch landmarks.length > 0 (lines 336-583)
ProcessHands(results) ==
  LET rotationHand == Hand(results, rotationHandIndex(results))
      rotationOffset == RotationHandOffset(rotationHand.wrist)
  IN  /\ isHandControlled' = TRUE
      /\ calibrationFrames' = FramesAfterRotationHand
      /\ hand0Calibration' = Hand0CalibrationAfter(rotationHand.wrist)
      /\ hand0Position' = rotationOffset
      /\ targetRotation' = RotationTarget(rotationHand)
      /\ IF HasZoomHand(results)
         THEN LET zoomHand == Hand(results, zoomHandIndex(results))
                  zoomOffset == ZoomHandOffset(zoomHand.wrist)
              IN  /\ hand1Calibration' = Hand1CalibrationAfter(zoomHand.wrist)
                  /\ hand1Position' = zoomOffset
                  /\ targetZoom' = ZoomTarget(zoomHand)
                  /\ targetPan' =
                       VecLerp(targetPan, Average(rotationOffset, zoomOffset))
         ELSE /\ targetPan' = VecLerp(targetPan, rotationOffset)
              /\ targetZoom' = U
              /\ UNCHANGED <<hand1Calibration, hand1Position>>

\* the wrist samples of a run of frames with hands, while both hands were
\* visible in every frame of the run, up to the CALIBRATION_FRAME_COUNT-th
\* frame: their number and, per hand, their sum
WristRunStart == [frames |-> 0, rotation |-> Zero, zoom |-> Zero]

Sum(p, q) == Vec(p.x + q.x, p.y + q.y, p.z + q.z)

WristRunAfter(results) ==
  IF HandCount(results) > 0 /\ handRun >= CALIBRATION_FRAME_COUNT
  THEN wristRun
  ELSE IF HasZoomHand(results) /\ wristRun.frames = handRun
       THEN [frames |-> wristRun.frames + 1,
             rotation |-> Sum(wristRun.rotation,
                              Hand(results, rotationHandIndex(results)).wrist),
             zoom |-> Sum(wristRun.zoom,
                          Hand(results, zoomHandIndex(results)).wrist)]
       ELSE WristRunStart

\* the branch landmarks.length = 0 (lines 584-596)
ResetCalibrationMutant ==
  /\ hand0Calibration' = NONE
  /\ hand1Calibration' = NONE
  /\ UNCHANGED calibrationFrames
ResetCalibration ==
  /\ hand0Calibration' = NONE
  /\ hand1Calibration' = NONE
  /\ calibrationFrames' = 0

ProcessNoHands ==
  /\ isHandControlled' = FALSE
  /\ targetPan' = Zero
  /\ targetRotation' = Zero
  /\ targetZoom' = U
  /\ ResetCalibration
  /\ UNCHANGED <<hand0Position, hand1Position>>

processHandResults(results) ==
  IF HandCount(results) > 0
  THEN /\ ProcessHands(results)
       /\ ui' = [ui EXCEPT !.status = HandsStatus(HandCount(results)),
                           !.statusClass = ""]
  ELSE /\ ProcessNoHands
       /\ ui' = [ui EXCEPT !.status = "No hand detected", !.statusClass = ""]

----------------------------------------------------------------------------
\* DynamicAudioEngine (audioEngine.ts).  The instance is the record `audio`;
\* a method is an operator from the instance to the instance it leaves.
\*   gate[c]      "idle", "attack" (triggerAttack) or "release" (triggerRelease)
\*   volume[c]    the last value written to the synth's volume
\*   melodyVolume the value the notes of the last sequence made write to the
\*                side synth's volume
\*   triggered    the channels whose triggerAttack ran in the last call
\*   sideReleased releaseAll ran on every side synth in the last call
\*   rotation     the rotation the last side detection was given

Channels == {"rotation", "pan", "zoom"}
SideNames == <<"front", "back", "left", "right", "top", "bottom">>
Sides == {SideNames[i] : i \in 1..Len(SideNames)} \cup {"center"}

MIN_SPEED_THRESHOLD == (5 * U) \div 100
minTimeBetweenSounds == 100

AudioEngineNew ==
  [isEnabled |-> TRUE, synthsReady |-> FALSE,
   smoothedRotationSpeed |-> 0, smoothedPanSpeed |-> 0, smoothedZoomSpeed |-> 0,
   currentSide |-> "center",
   melodySequences |-> [s \in Sides |-> NULL],
   lastSoundTime |-> [c \in Channels |-> 0],
   gate |-> [c \in Channels |-> "idle"],
   volume |-> [c \in Channels |-> 0], melodyVolume |-> 0,
   triggered |-> {}, sideReleased |-> FALSE,
   rotation |-> Zero,
   recordingDestination |-> FALSE]

\* resume(): Tone.start() resolved, then initializeSynths()
initializeSynths(a) ==
  [a EXCEPT !.synthsReady = TRUE, !.melodySequences = [s \in Sides |-> NULL]]

\* previous * (1 - factor) + current * factor with smoothingFactor 0.15
smoothValue(current, previous) == (previous * 85 + current * 15) \div 100

canPlaySoundAlways(a, soundId, t) == TRUE
canPlaySound(a, soundId, t) == ~(t - a.lastSoundTime[soundId] < minTimeBetweenSounds)

\* stopAllSounds: every synth released, every existing sequence stopped
\* (a stopped sequence stays in the map)
stopAllSounds(a) ==
  [a EXCEPT
     !.gate = [c \in Channels |->
                 IF a.synthsReady THEN "release" ELSE a.gate[c]],
     !.sideReleased = a.synthsReady,
     !.melodySequences = [s \in Sides |->
                 IF a.melodySequences[s] = NULL THEN NULL ELSE "stopped"]]

setEnabled(a, enabled) ==
  LET b == [a EXCEPT !.isEnabled = enabled, !.triggered = {},
                     !.sideReleased = FALSE]
  IN  IF ~enabled THEN stopAllSounds(b) ELSE b

\* quarter turns: the angles whose sine and cosine are 0, 1 or -1
Quarter == PI \div 2
IsQuarterTurns(r) ==
  r.x % Quarter = 0 /\ r.y % Quarter = 0 /\ r.z % Quarter = 0
Cos4(angle) == <<1, 0, -1, 0>>[((angle \div Quarter) % 4) + 1]
Sin4(angle) == <<0, 1, 0, -1>>[((angle \div Quarter) % 4) + 1]

\* THREE.Vector3.applyEuler, order XYZ (Matrix4.makeRotationFromEuler)
applyEuler(v, r) ==
  LET a == Cos4(r.x)  b == Sin4(r.x)
      c == Cos4(r.y)  d == Sin4(r.y)
      e == Cos4(r.z)  f == Sin4(r.z)
  IN  Vec(c * e * v.x - c * f * v.y + d * v.z,
          (a * f + b * e * d) * v.x + (a * e - b * f * d) * v.y - b * c * v.z,
          (b * f - a * e * d) * v.x + (b * e + a * f * d) * v.y + a * c * v.z)

Dot(p, q) == p.x * q.x + p.y * q.y + p.z * q.z

SideNormal(side) ==
  CASE side = "front" -> Vec(0, 0, 1)
    [] side = "back" -> Vec(0, 0, -1)
    [] side = "left" -> Vec(-1, 0, 0)
    [] side = "right" -> Vec(1, 0, 0)
    [] side = "top" -> Vec(0, 1, 0)
    [] side = "bottom" -> Vec(0, -1, 0)

\* camera.getWorldDirection of the camera of main.ts: at (0,0,5), not rotated
CameraDirection == Vec(0, 0, -1)

\* the loop at lines 237-246: the first side, in the object's key order,
\* whose dot product no other side exceeds
RECURSIVE MaxDotSide(_, _, _, _, _)
MaxDotSide(r, cameraDirection, i, maxDot, detectedSide) ==
  IF i > Len(SideNames) THEN detectedSide
  ELSE LET dot == Dot(applyEuler(SideNormal(SideNames[i]), r), cameraDirection)
       IN  IF detectedSide = "center" \/ dot > maxDot
           THEN MaxDotSide(r, cameraDirection, i + 1, dot, SideNames[i])
           ELSE MaxDotSide(r, cameraDirection, i + 1, maxDot, detectedSide)

\* detectSceneSide: the sides the call may return.  Sines and cosines are
\* evaluated at quarter turns only; for any other rotation every side is
\* left possible.
detectSceneSide(r, cameraDirection) ==
  IF IsQuarterTurns(r)
  THEN {MaxDotSide(r, cameraDirection, 1, 0, "center")}
  ELSE {SideNames[i] : i \in 1..Len(SideNames)}

\* the volume every note of a sequence made at this speed writes to the
\* side synth: Math.min(speed * 10 - 15, 0)
MelodyVolume(speed) == Min(speed * 10 - 15 * U, 0)

updateSideMelodyKeepsPrevious(a, side, speed) ==
  IF ~a.isEnabled \/ ~a.synthsReady THEN a
  ELSE
    LET b == [a EXCEPT !.currentSide = side]
    IN  IF speed < MIN_SPEED_THRESHOLD
        THEN [b EXCEPT !.melodySequences[side] = NULL]
        ELSE IF b.melodySequences[side] = NULL
             THEN [b EXCEPT !.melodySequences[side] = "started",
                            !.melodyVolume = MelodyVolume(speed)]
             ELSE b

\* updateSideMelody(side, speed)
updateSideMelody(a, side, speed) ==
  IF ~a.isEnabled \/ ~a.synthsReady THEN a
  ELSE
    LET b == IF a.currentSide # side
             THEN [a EXCEPT !.melodySequences[a.currentSide] = NULL,
                            !.currentSide = side]
             ELSE a
    IN  IF speed < MIN_SPEED_THRESHOLD
        THEN [b EXCEPT !.melodySequences[side] = NULL]
        ELSE IF b.melodySequences[side] = NULL
             THEN [b EXCEPT !.melodySequences[side] = "started",
                            !.melodyVolume = MelodyVolume(speed)]
             ELSE b

\* updateRotationSound / updatePanSound / updateZoomSound: the three differ
\* in the smoothed field and in the volume mapping only
SmoothedOf(a, c) ==
  CASE c = "rotation" -> a.smoothedRotationSpeed
    [] c = "pan" -> a.smoothedPanSpeed
    [] c = "zoom" -> a.smoothedZoomSpeed

WithSmoothed(a, c, v) ==
  CASE c = "rotation" -> [a EXCEPT !.smoothedRotationSpeed = v]
    [] c = "pan" -> [a EXCEPT !.smoothedPanSpeed = v]
    [] c = "zoom" -> [a EXCEPT !.smoothedZoomSpeed = v]

ChannelVolumeUnclipped(c, s) ==
  IF c = "pan" THEN s * 12 - 28 * U ELSE s * 15 - 25 * U

\* Math.min(smoothed * 15 - 25, 0), for pan Math.min(smoothed * 12 - 28, 0)
ChannelVolume(c, s) ==
  IF c = "pan" THEN Min(s * 12 - 28 * U, 0) ELSE Min(s * 15 - 25 * U, 0)

updateChannelSound(a, c, speed, t) ==
  IF ~a.synthsReady \/ ~a.isEnabled THEN a
  ELSE
    LET s == smoothValue(speed, SmoothedOf(a, c))
        b == WithSmoothed(a, c, s)
    IN  IF s < MIN_SPEED_THRESHOLD
        THEN [b EXCEPT !.gate[c] = "release"]
        ELSE IF ~canPlaySound(b, c, t) THEN b
        ELSE [b EXCEPT !.lastSoundTime[c] = t,
                       !.volume[c] = ChannelVolume(c, s),
                       !.gate[c] = "attack",
                       !.triggered = @ \cup {c}]

\* the three blocks of update, lines 420-439
updateChannel(a, c, speed, t) ==
  IF speed > MIN_SPEED_THRESHOLD \div 2
  THEN updateChannelSound(a, c, speed, t)
  ELSE [a EXCEPT !.gate[c] = "release"]

\* update(metrics, rotation, panDirection, zoomLevel, cubes, camera) once the
\* side is detected
updateWithSide(a, metrics, side, t) ==
  LET a0 == [a EXCEPT !.triggered = {}, !.sideReleased = FALSE]
      a1 == updateChannel(a0, "rotation", metrics.rotationSpeed, t)
      a2 == updateChannel(a1, "pan", metrics.panSpeed, t)
      a3 == updateChannel(a2, "zoom", metrics.zoomSpeed, t)
  IN  updateSideMelody(a3, side, metrics.rotationSpeed)

\* update: the instances the call may leave
update(a, metrics, r, cameraDirection, t) ==
  IF ~a.isEnabled \/ ~a.synthsReady
  THEN {[a EXCEPT !.triggered = {}, !.sideReleased = FALSE]}
  ELSE {updateWithSide([a EXCEPT !.rotation = r], metrics, side, t) :
          side \in detectSceneSide(r, cameraDirection)}

setupRecordingDestination(a) == [a EXCEPT !.recordingDestination = TRUE]
removeRecordingDestination(a) == [a EXCEPT !.recordingDestination = FALSE]

----------------------------------------------------------------------------
\* VideoRecorder (videoRecorder.ts).  The instance is the record `recorder`,
\* together with what it acts on:
\*   media      the MediaRecorder objects it created, in order: each has a
\*              state and the events the browser has queued for it ("data",
\*              then "stop", after stop())
\*   files      the downloads made so far, each the chunks of its blob
\*   out        the status the last call reported through onStatusUpdate
\* mediaRecorder is an index of media, 0 for null; a chunk is the index of
\* the MediaRecorder that produced it.

Status(text, className) == [status |-> text, className |-> className]

VideoRecorderNew ==
  [isRecording |-> FALSE, mediaRecorder |-> 0, recordedChunks |-> <<>>,
   recordingAnimationFrame |-> FALSE, media |-> <<>>, files |-> <<>>,
   out |-> NONE]

\* MediaRecorder.stop(): inactive at once, the last data and the stop event
\* follow as tasks
MediaStop(m) == [state |-> "inactive", queue |-> m.queue \o <<"data", "stop">>]

\* startRecording; `failure` is what throws inside the try block: nothing
\* ("none"), new MediaRecorder ("construct") or mediaRecorder.start ("start")
startRecordingTry(r, failure) ==
  IF failure = "construct"
  THEN [r EXCEPT !.isRecording = FALSE,
                 !.out = Status("Error starting recording", "error")]
  ELSE IF failure = "start"
  THEN [r EXCEPT !.media = Append(@, [state |-> "inactive", queue |-> <<>>]),
                 !.mediaRecorder = Len(r.media) + 1,
                 !.recordedChunks = <<>>,
                 !.isRecording = FALSE,
                 !.out = Status("Error starting recording", "error")]
  ELSE [r EXCEPT !.media = Append(@, [state |-> "recording", queue |-> <<>>]),
                 !.mediaRecorder = Len(r.media) + 1,
                 !.recordedChunks = <<>>,
                 !.isRecording = TRUE,
                 !.recordingAnimationFrame = TRUE,
                 !.out = Status("Recording...", "recording")]

startRecordingRestarts(r, failure) == startRecordingTry(r, failure)
startRecording(r, failure) ==
  IF r.isRecording THEN [r EXCEPT !.out = NONE]
  ELSE startRecordingTry(r, failure)

\* whether startRecording throws to its caller
startRecordingThrows(r, failure) == ~r.isRecording /\ failure # "none"

stopRecording(r) ==
  IF ~r.isRecording \/ r.mediaRecorder = 0 THEN [r EXCEPT !.out = NONE]
  ELSE IF r.media[r.mediaRecorder].state = "recording"
  THEN [r EXCEPT !.isRecording = FALSE,
                 !.media[r.mediaRecorder] = MediaStop(@),
                 !.recordingAnimationFrame = FALSE,
                 !.out = Status("Processing recording...", "")]
  ELSE [r EXCEPT !.out = NONE]

handleRecordingStopKeepsBuffer(r) ==
  [r EXCEPT !.files = Append(@, r.recordedChunks),
            !.out = Status("Recording saved", "")]
handleRecordingStop(r) ==
  IF Len(r.recordedChunks) = 0
  THEN [r EXCEPT !.out = Status("No recording data available", "error")]
  ELSE [r EXCEPT !.files = Append(@, r.recordedChunks),
                 !.recordedChunks = <<>>,
                 !.out = Status("Recording saved", "")]

\* cleanup(); a status stopRecording reported stays reported
cleanup(r) ==
  LET r1 == IF r.isRecording THEN stopRecording(r) ELSE [r EXCEPT !.out = NONE]
      r2 == [r1 EXCEPT !.recordingAnimationFrame = FALSE]
      r3 == IF r2.mediaRecorder # 0
               /\ r2.media[r2.mediaRecorder].state # "inactive"
            THEN [r2 EXCEPT !.media[r2.mediaRecorder] = MediaStop(@)]
            ELSE r2
  IN  [r3 EXCEPT !.mediaRecorder = 0, !.recordedChunks = <<>>]

\* ondataavailable: a blob of size 0 is dropped
ondataavailable(r, id, size) ==
  IF size > 0 THEN [r EXCEPT !.recordedChunks = Append(@, id), !.out = NONE]
  ELSE [r EXCEPT !.out = NONE]

\* drawCompositionFrame as an animation-frame callback: draws and asks for
\* the next frame while isRecording
drawCompositionFrame(r) ==
  [r EXCEPT !.recordingAnimationFrame = r.isRecording, !.out = NONE]

\* the status element after a call on the recorder
AfterRecorderStatus(u, r) ==
  IF r.out = NONE THEN u
  ELSE [u EXCEPT !.status = r.out.status, !.statusClass = r.out.className]

\* the instance once onStatusUpdate has delivered the status
Delivered(r) == [r EXCEPT !.out = NONE]

----------------------------------------------------------------------------
\* main.ts: the page, the session and the two animation-frame loops

\* Date.now() when the page loads: far from 0, the default of lastSoundTime
Epoch == 1000 * 1000
\* the clock advances by half the debounce interval
TickMs == minTimeBetweenSounds \div 2

InitUi ==
  [status |-> "Loading MediaPipe model...", statusClass |-> "loading",
   startDisabled |-> TRUE, startText |-> "Start Hand Tracking",
   startHidden |-> FALSE, stopHidden |-> TRUE, recordHidden |-> TRUE,
   recordText |-> "Start Recording"]

Identity == [position |-> Zero, rotation |-> Zero, scale |-> U]

Init ==
  /\ hand0Position = Zero /\ hand1Position = Zero
  /\ targetPan = Zero /\ targetRotation = Zero /\ targetZoom = U
  /\ isHandControlled = FALSE
  /\ hand0Calibration = NONE /\ hand1Calibration = NONE
  /\ calibrationFrames = 0
  /\ currentRotation = Zero /\ currentZoom = U /\ cubeGroup = Identity
  /\ previousRotation = Zero /\ previousPan = Zero /\ previousZoom = U
  /\ lastUpdateTime = Epoch
  /\ handLandmarker = NULL /\ modelLoad = "loading"
  /\ isInitialized = FALSE /\ detectionLoopRunning = FALSE
  /\ currentStream = 0 /\ liveStreams = {}
  /\ videoRecorder = NULL /\ initPc = "idle"
  /\ detectPending = FALSE /\ lastVideoTime = -1
  /\ ui = InitUi
  /\ audio = AudioEngineNew
  /\ recorder = VideoRecorderNew
  /\ now = Epoch /\ animFrames = 0
  /\ lastResults = NONE /\ handRun = 0 /\ wristRun = WristRunStart

\* initializeHandLandmarker: the model load started at page load ends
ModelLoaded ==
  /\ modelLoad = "loading"
  /\ modelLoad' = "loaded"
  /\ handLandmarker' = "loaded"
  /\ ui' = [ui EXCEPT
       !.status = "Model loaded. Click \"Start Hand Tracking\" to begin.",
       !.statusClass = "", !.startDisabled = FALSE]
  /\ UNCHANGED <<gestureVars, animVars, isInitialized, detectionLoopRunning,
                 currentStream, liveStreams, videoRecorder, initPc,
                 detectPending, lastVideoTime, audio, recorder, now,
                 animFrames, historyVars>>

ModelLoadFailed ==
  /\ modelLoad = "loading"
  /\ modelLoad' = "failed"
  /\ ui' = [ui EXCEPT !.status = "Error loading model. Check console.",
                      !.statusClass = "error", !.startDisabled = FALSE,
                      !.startText = "Retry"]
  /\ UNCHANGED <<gestureVars, animVars, handLandmarker, isInitialized,
                 detectionLoopRunning, currentStream, liveStreams,
                 videoRecorder, initPc, detectPending, lastVideoTime, audio,
                 recorder, now, animFrames, historyVars>>

DetectHandsBodyUnthrottled(lastT, Frames, maxT) ==
  \E ready \in BOOLEAN, results \in Frames,
     currentTime \in {t \in {lastT, lastT + 1} : t >= 0 /\ t <= maxT} :
    /\ IF ready
       THEN /\ lastVideoTime' = currentTime
            /\ lastResults' = results
            /\ CASE results.outcome = "results" ->
                      /\ processHandResults(results)
                      /\ handRun' = IF HandCount(results) > 0
                                    THEN handRun + 1 ELSE 0
                      /\ wristRun' = WristRunAfter(results)
                 [] results.outcome = "null" ->
                      /\ isHandControlled' = FALSE
                      /\ ui' = [ui EXCEPT !.status = "No hand detected",
                                          !.statusClass = ""]
                      /\ UNCHANGED <<hand0Position, hand1Position, targetPan,
                                     targetRotation, targetZoom,
                                     hand0Calibration, hand1Calibration,
                                     calibrationFrames, handRun, wristRun>>
                 [] results.outcome = "throw" ->
                      UNCHANGED <<gestureVars, ui, handRun, wristRun>>
       ELSE /\ lastVideoTime' = lastT
            /\ UNCHANGED <<gestureVars, ui, historyVars>>
    /\ detectPending' = TRUE

\* the body of detectHands once its first test has passed (lines 659-707),
\* for a closure whose lastVideoTime is lastT.  The video is ready or not,
\* currentTime is the time of the last processed frame or a later one, and
\* detectForVideo returns a result, returns nothing or throws.
DetectHandsBody(lastT, Frames, maxT) ==
  \E ready \in BOOLEAN, results \in Frames,
     currentTime \in {t \in {lastT, lastT + 1} : t >= 0 /\ t <= maxT} :
    /\ IF ready /\ lastT # currentTime
       THEN /\ lastVideoTime' = currentTime
            /\ lastResults' = results
            /\ CASE results.outcome = "results" ->
                      /\ processHandResults(results)
                      /\ handRun' = IF HandCount(results) > 0
                                    THEN handRun + 1 ELSE 0
                      /\ wristRun' = WristRunAfter(results)
                 [] results.outcome = "null" ->
                      /\ isHandControlled' = FALSE
                      /\ ui' = [ui EXCEPT !.status = "No hand detected",
                                          !.statusClass = ""]
                      /\ UNCHANGED <<hand0Position, hand1Position, targetPan,
                                     targetRotation, targetZoom,
                                     hand0Calibration, hand1Calibration,
                                     calibrationFrames, handRun, wristRun>>
                 [] results.outcome = "throw" ->
                      UNCHANGED <<gestureVars, ui, handRun, wristRun>>
       ELSE /\ lastVideoTime' = lastT
            /\ UNCHANGED <<gestureVars, ui, historyVars>>
    /\ detectPending' = TRUE

DetectHandsUnguarded(Frames, maxT) ==
  /\ detectPending
  /\ DetectHandsBody(lastVideoTime, Frames, maxT)
  /\ UNCHANGED <<animVars, handLandmarker, modelLoad, isInitialized,
                 detectionLoopRunning, currentStream, liveStreams,
                 videoRecorder, initPc, audio, recorder, now, animFrames>>

\* detectHands as an animation-frame callback
DetectHands(Frames, maxT) ==
  /\ detectPending
  /\ IF handLandmarker = NULL \/ ~isInitialized \/ ~detectionLoopRunning
     THEN /\ detectPending' = FALSE
          /\ UNCHANGED <<gestureVars, ui, historyVars, lastVideoTime>>
     ELSE DetectHandsBody(lastVideoTime, Frames, maxT)
  /\ UNCHANGED <<animVars, handLandmarker, modelLoad, isInitialized,
                 detectionLoopRunning, currentStream, liveStreams,
                 videoRecorder, initPc, audio, recorder, now, animFrames>>

\* the Start button: initializeCamera up to its first await
StartClick ==
  /\ ~ui.startDisabled /\ ~ui.startHidden
  /\ IF isInitialized
     THEN UNCHANGED <<ui, initPc>>
     ELSE /\ ui' = [ui EXCEPT !.startDisabled = TRUE,
                              !.startText = "Starting...",
                              !.status = "Requesting camera access...",
                              !.statusClass = "loading"]
          /\ initPc' = "getUserMedia"
  /\ UNCHANGED <<gestureVars, animVars, handLandmarker, modelLoad,
                 isInitialized, detectionLoopRunning, currentStream,
                 liveStreams, videoRecorder, detectPending, lastVideoTime,
                 audio, recorder, now, animFrames, historyVars>>

InitializeCameraCatchKeepsDisabled ==
  ui' = [ui EXCEPT
     !.status = "Camera access denied. Please allow camera access and try again.",
     !.statusClass = "error"]

\* the catch block of initializeCamera (lines 741-747)
InitializeCameraCatch ==
  ui' = [ui EXCEPT
     !.status = "Camera access denied. Please allow camera access and try again.",
     !.statusClass = "error", !.startDisabled = FALSE,
     !.startText = "Start Hand Tracking"]

\* getUserMedia resolves with a new stream (lines 614-632)
CameraGranted(maxStreams) ==
  /\ initPc = "getUserMedia"
  /\ \E stream \in 1..maxStreams :
       /\ stream \notin liveStreams
       /\ \A other \in 1..(stream - 1) : other \in liveStreams
       /\ currentStream' = stream
       /\ liveStreams' = liveStreams \cup {stream}
  /\ IF handLandmarker = NULL
     THEN /\ ui' = [ui EXCEPT
               !.status = "Model not loaded yet. Please wait...",
               !.statusClass = "loading", !.startDisabled = FALSE,
               !.startText = "Start Hand Tracking"]
          /\ initPc' = "idle"
     ELSE /\ initPc' = "loadeddata"
          /\ UNCHANGED ui
  /\ UNCHANGED <<gestureVars, animVars, handLandmarker, modelLoad,
                 isInitialized, detectionLoopRunning, videoRecorder,
                 detectPending, lastVideoTime, audio, recorder, now,
                 animFrames, historyVars>>

\* getUserMedia rejects
CameraDenied ==
  /\ initPc = "getUserMedia"
  /\ InitializeCameraCatch
  /\ initPc' = "idle"
  /\ UNCHANGED <<gestureVars, animVars, handLandmarker, modelLoad,
                 isInitialized, detectionLoopRunning, currentStream,
                 liveStreams, videoRecorder, detectPending, lastVideoTime,
                 audio, recorder, now, animFrames, historyVars>>

\* loadeddata fired and play() resolved: lines 643-713, with the first call
\* of detectHands; initializeCamera then awaits audioEngine.resume()
VideoPlaying(Frames, maxT) ==
  /\ initPc = "loadeddata"
  /\ isInitialized' = TRUE
  /\ detectionLoopRunning' = TRUE
  /\ DetectHandsBody(-1, Frames, maxT)
  /\ initPc' = "resume"
  /\ UNCHANGED <<animVars, handLandmarker, modelLoad, currentStream,
                 liveStreams, videoRecorder, audio, recorder, now, animFrames>>

\* audioEngine.resume() resolved: the rest of initializeCamera (lines 713-740)
ResumeDone ==
  /\ initPc = "resume"
  /\ audio' = setupRecordingDestination(initializeSynths(audio))
  /\ recorder' = VideoRecorderNew
  /\ videoRecorder' = "instance"
  /\ ui' = [ui EXCEPT !.startHidden = TRUE, !.stopHidden = FALSE,
                      !.recordHidden = FALSE, !.status = "Camera ready",
                      !.statusClass = ""]
  /\ initPc' = "idle"
  /\ UNCHANGED <<gestureVars, animVars, handLandmarker, modelLoad,
                 isInitialized, detectionLoopRunning, currentStream,
                 liveStreams, detectPending, lastVideoTime, now, animFrames,
                 historyVars>>

\* Tone.start() rejects ("resume"), or the VideoRecorder constructor throws
\* after the synths were made ("recorder")
ResumeFailed ==
  /\ initPc = "resume"
  /\ \E failure \in {"resume", "recorder"} :
       audio' = IF failure = "recorder" THEN initializeSynths(audio) ELSE audio
  /\ InitializeCameraCatch
  /\ initPc' = "idle"
  /\ UNCHANGED <<gestureVars, animVars, handLandmarker, modelLoad,
                 isInitialized, detectionLoopRunning, currentStream,
                 liveStreams, videoRecorder, detectPending, lastVideoTime,
                 recorder, now, animFrames, historyVars>>

\* stopCamera (lines 750-817)
stopCameraResetsTargets ==
  /\ isHandControlled' = FALSE
  /\ targetPan' = Zero
  /\ targetRotation' = Zero
  /\ targetZoom' = U

stopCamera ==
  IF ~isInitialized
  THEN UNCHANGED <<gestureVars, animVars, sessionVars, ui, audio, recorder>>
  ELSE
    LET r1 == IF videoRecorder # NULL /\ recorder.isRecording
              THEN stopRecording(recorder) ELSE [recorder EXCEPT !.out = NONE]
        r2 == IF videoRecorder # NULL
              THEN [cleanup(r1) EXCEPT !.out = r1.out] ELSE r1
    IN  /\ recorder' = Delivered(r2)
        /\ videoRecorder' = NULL
        /\ audio' = setEnabled(removeRecordingDestination(audio), FALSE)
        /\ detectionLoopRunning' = FALSE
        /\ handLandmarker' = NULL
        /\ liveStreams' = liveStreams \ {currentStream}
        /\ currentStream' = 0
        /\ isInitialized' = FALSE
        /\ stopCameraResetsTargets
        /\ currentZoom' = U
        /\ previousPan' = Zero
        /\ previousRotation' = Zero
        /\ previousZoom' = U
        /\ cubeGroup' = Identity
        /\ ui' = [ui EXCEPT
             !.stopHidden = TRUE, !.recordHidden = TRUE,
             !.startHidden = FALSE, !.startDisabled = FALSE,
             !.startText = "Start Hand Tracking",
             !.status = "Stopped. Click \"Start Hand Tracking\" to begin again.",
             !.statusClass = ""]
        /\ UNCHANGED <<hand0Position, hand1Position, hand0Calibration,
                       hand1Calibration, calibrationFrames, currentRotation,
                       lastUpdateTime, modelLoad, initPc, detectPending,
                       lastVideoTime>>

\* the Stop button
StopClick ==
  /\ ~ui.stopHidden
  /\ stopCamera
  /\ UNCHANGED <<now, animFrames, historyVars>>

\* calculateRotationSpeed, calculatePanSpeed, calculateZoomSpeed: per second,
\* deltaTime in milliseconds
calculateRotationSpeed(prev, curr, deltaTime) ==
  IF deltaTime = 0 THEN 0
  ELSE ((Abs(curr.x - prev.x) + Abs(curr.y - prev.y) + Abs(curr.z - prev.z))
        * 1000) \div deltaTime

calculatePanSpeed(prev, curr, deltaTime) ==
  IF deltaTime = 0 THEN 0 ELSE (Distance(prev, curr) * 1000) \div deltaTime

calculateZoomSpeed(prev, curr, deltaTime) ==
  IF deltaTime = 0 THEN 0 ELSE (Abs(curr - prev) * 1000) \div deltaTime

autoRotationSpeed == (5 * U) \div 1000
MOVEMENT_THRESHOLD == U \div 100

\* Math.sin(Date.now() * 0.0005) * 0.3 is some value of [-0.3, 0.3]
TiltSamples == {-((3 * U) \div 10), (3 * U) \div 10}

\* the audio block of animate (lines 857-879): the instances it may leave
AnimateAudioNoGate(rotation, metrics) ==
  update(setEnabled(audio, TRUE), metrics, rotation, CameraDirection, now)
AnimateAudio(rotation, metrics) ==
  IF isInitialized /\ isHandControlled
  THEN IF metrics.rotationSpeed + metrics.panSpeed + metrics.zoomSpeed
          > MOVEMENT_THRESHOLD
       THEN update(setEnabled(audio, TRUE), metrics, rotation,
                   CameraDirection, now)
       ELSE {setEnabled(audio, FALSE)}
  ELSE {setEnabled(audio, FALSE)}

\* animate (lines 820-925), the scene and the audio; the pulsing of the
\* assets and the lights are not modelled
Animate(maxFrames) ==
  /\ animFrames < maxFrames
  /\ animFrames' = animFrames + 1
  /\ \E tilt \in TiltSamples :
       LET deltaTime == now - lastUpdateTime
           position == VecLerp(cubeGroup.position, targetPan)
           rotation ==
             IF isHandControlled
             THEN Vec(MathLerp(currentRotation.x, targetRotation.x),
                      MathLerp(currentRotation.y, targetRotation.y),
                      MathLerp(currentRotation.z, targetRotation.z))
             ELSE Vec(tilt, currentRotation.y + autoRotationSpeed,
                      currentRotation.z)
           zoom == MathLerp(currentZoom, targetZoom)
           metrics ==
             [rotationSpeed |->
                calculateRotationSpeed(previousRotation, rotation, deltaTime),
              panSpeed |-> calculatePanSpeed(previousPan, position, deltaTime),
              zoomSpeed |-> calculateZoomSpeed(previousZoom, zoom, deltaTime)]
       IN  /\ lastUpdateTime' = now
           /\ currentRotation' = rotation
           /\ currentZoom' = zoom
           /\ cubeGroup' = [position |-> position, rotation |-> rotation,
                            scale |-> zoom]
           /\ audio' \in AnimateAudio(rotation, metrics)
           /\ previousRotation' = rotation
           /\ previousPan' = position
           /\ previousZoom' = zoom
  /\ UNCHANGED <<gestureVars, sessionVars, ui, recorder, now, historyVars>>

\* the Record button (lines 955-977)
RecordClickHandlerUnchecked(maxRecorders) ==
  IF recorder.isRecording
  THEN /\ recorder' = Delivered(stopRecording(recorder))
       /\ ui' = [AfterRecorderStatus(ui, stopRecording(recorder))
                   EXCEPT !.recordText = "Start Recording"]
  ELSE \E failure \in {"none", "construct", "start"} :
         /\ failure = "construct" \/ Len(recorder.media) < maxRecorders
         /\ recorder' = Delivered(startRecording(recorder, failure))
         /\ ui' = IF startRecordingThrows(recorder, failure)
                  THEN [ui EXCEPT !.status = "Error starting recording",
                                  !.statusClass = "error"]
                  ELSE [AfterRecorderStatus(ui, startRecording(recorder, failure))
                          EXCEPT !.recordText = "Stop Recording"]

RecordClickHandler(maxRecorders) ==
  IF videoRecorder = NULL
  THEN /\ ui' = [ui EXCEPT !.status = "Please start hand tracking first",
                           !.statusClass = "error"]
       /\ UNCHANGED recorder
  ELSE IF recorder.isRecording
  THEN /\ recorder' = Delivered(stopRecording(recorder))
       /\ ui' = [AfterRecorderStatus(ui, stopRecording(recorder))
                   EXCEPT !.recordText = "Start Recording"]
  ELSE \E failure \in {"none", "construct", "start"} :
         /\ failure = "construct" \/ Len(recorder.media) < maxRecorders
         /\ recorder' = Delivered(startRecording(recorder, failure))
         /\ ui' = IF startRecordingThrows(recorder, failure)
                  THEN [ui EXCEPT !.status = "Error starting recording",
                                  !.statusClass = "error"]
                  ELSE [AfterRecorderStatus(ui, startRecording(recorder, failure))
                          EXCEPT !.recordText = "Stop Recording"]

RecordClick(maxRecorders) ==
  /\ ~ui.recordHidden
  /\ RecordClickHandler(maxRecorders)
  /\ UNCHANGED <<gestureVars, animVars, sessionVars, audio, now, animFrames,
                 historyVars>>

\* a callback of the recorder leaves the instance r
RecorderFrame(r) ==
  /\ recorder' = Delivered(r)
  /\ ui' = AfterRecorderStatus(ui, r)
  /\ UNCHANGED <<gestureVars, animVars, sessionVars, audio, now, animFrames,
                 historyVars>>

\* a timeslice of a recording MediaRecorder ends: dataavailable
MediaData(maxChunks) ==
  /\ \E id \in 1..Len(recorder.media), size \in {0, 1} :
       /\ recorder.media[id].state = "recording"
       /\ recorder.media[id].queue = <<>>
       /\ Len(recorder.recordedChunks) < maxChunks
       /\ RecorderFrame(ondataavailable(recorder, id, size))

\* the next queued event of a stopped MediaRecorder is delivered: its last
\* dataavailable, then stop (onstop calls handleRecordingStop)
MediaEvent ==
  /\ \E id \in 1..Len(recorder.media) :
       /\ recorder.media[id].queue # <<>>
       /\ LET event == Head(recorder.media[id].queue)
              r == [recorder EXCEPT !.media[id].queue = Tail(@)]
          IN  IF event = "data"
              THEN \E size \in {0, 1} :
                     RecorderFrame(ondataavailable(r, id, size))
              ELSE RecorderFrame(handleRecordingStop(r))

\* a recording MediaRecorder fails: onerror, and the browser stops it
MediaError ==
  /\ \E id \in 1..Len(recorder.media) :
       /\ recorder.media[id].state = "recording"
       /\ RecorderFrame([recorder EXCEPT
            !.media[id] = MediaStop(@),
            !.out = Status("Recording error occurred", "error")])

\* drawCompositionFrame's animation-frame callback
DrawFrame ==
  /\ recorder.recordingAnimationFrame
  /\ RecorderFrame(drawCompositionFrame(recorder))

\* time passes
Tick(maxTicks) ==
  /\ now < Epoch + maxTicks * TickMs
  /\ now' = now + TickMs
  /\ UNCHANGED <<gestureVars, animVars, sessionVars, ui, audio, recorder,
                 animFrames, historyVars>>

----------------------------------------------------------------------------
\* Inputs and specifications

\* wrist positions on the grid U/5 and the two pinches: closed, and open by
\* 0.1 (thumb tip and index tip 0.06 and 0.08 apart in x and y)
WristA == Vec(U \div 5, 2 * (U \div 5), 0)
WristB == Vec(3 * (U \div 5), 4 * (U \div 5), U \div 5)
ThumbTip == Vec(2 * (U \div 5), 2 * (U \div 5), 0)
IndexTip(open) ==
  IF open THEN Vec(ThumbTip.x + 3 * (U \div 50), ThumbTip.y + 4 * (U \div 50), 0)
  ELSE ThumbTip

HandAt(wrist, open, label) ==
  [wrist |-> wrist, thumb |-> ThumbTip, index |-> IndexTip(open),
   label |-> label]

Detected(landmarks) == [outcome |-> "results", landmarks |-> landmarks]
NoResult == [outcome |-> "null", landmarks |-> <<>>]
Thrown == [outcome |-> "throw", landmarks |-> <<>>]

\* the session specification: no hand, no result, or a right and a left hand
SessionFrames ==
  {Detected(<<>>), NoResult,
   Detected(<<HandAt(WristA, FALSE, "Right"), HandAt(WristB, TRUE, "Left")>>)}

\* the warm-up specification: one hand under each label, two unlabelled
\* hands at different wrist positions; open pinch
WarmupFrames ==
  {Detected(<<>>),
   Detected(<<HandAt(WristA, TRUE, "Right")>>),
   Detected(<<HandAt(WristB, TRUE, "Left")>>),
   Detected(<<HandAt(WristB, TRUE, "")>>),
   Detected(<<HandAt(WristA, TRUE, ""), HandAt(WristB, TRUE, "")>>),
   Detected(<<HandAt(WristB, TRUE, ""), HandAt(WristA, TRUE, "")>>)}

\* the hand-selection specification: every labelling of one and two hands,
\* and a detector that returns nothing or throws
Labels == {"Left", "Right", ""}
SelectionFrames ==
  {Detected(<<>>), NoResult, Thrown}
  \cup {Detected(<<HandAt(WristA, open, l)>>) : open \in BOOLEAN, l \in Labels}
  \cup {Detected(<<HandAt(WristA, TRUE, l), HandAt(WristB, FALSE, m)>>) :
          l \in Labels, m \in Labels}

MaxVideoTime == 1
MaxAnimFrames == 2
MaxTicks == 1
MaxStreams == 2
MaxRecorders == 1
MaxChunks == 1
WarmupMaxTime == 10
SelectionMaxTime == 2

Next ==
  \/ ModelLoaded
  \/ ModelLoadFailed
  \/ StartClick
  \/ CameraGranted(MaxStreams)
  \/ CameraDenied
  \/ VideoPlaying(SessionFrames, MaxVideoTime)
  \/ ResumeDone
  \/ ResumeFailed
  \/ DetectHands(SessionFrames, MaxVideoTime)
  \/ StopClick
  \/ Animate(MaxAnimFrames)
  \/ RecordClick(MaxRecorders)
  \/ MediaData(MaxChunks)
  \/ MediaEvent
  \/ MediaError
  \/ DrawFrame
  \/ Tick(MaxTicks)

Spec == Init /\ [][Next]_vars

\* a session that has just become active: the model loaded, Start clicked,
\* the camera granted, the video playing but not ready at the first call of
\* detectHands, the audio resumed
InitActive ==
  /\ hand0Position = Zero /\ hand1Position = Zero
  /\ targetPan = Zero /\ targetRotation = Zero /\ targetZoom = U
  /\ isHandControlled = FALSE
  /\ hand0Calibration = NONE /\ hand1Calibration = NONE
  /\ calibrationFrames = 0
  /\ currentRotation = Zero /\ currentZoom = U /\ cubeGroup = Identity
  /\ previousRotation = Zero /\ previousPan = Zero /\ previousZoom = U
  /\ lastUpdateTime = Epoch
  /\ handLandmarker = "loaded" /\ modelLoad = "loaded"
  /\ isInitialized = TRUE /\ detectionLoopRunning = TRUE
  /\ currentStream = 1 /\ liveStreams = {1}
  /\ videoRecorder = "instance" /\ initPc = "idle"
  /\ detectPending = TRUE /\ lastVideoTime = -1
  /\ ui = [status |-> "Camera ready", statusClass |-> "",
           startDisabled |-> TRUE, startText |-> "Starting...",
           startHidden |-> TRUE, stopHidden |-> FALSE,
           recordHidden |-> FALSE, recordText |-> "Start Recording"]
  /\ audio = setupRecordingDestination(initializeSynths(AudioEngineNew))
  /\ recorder = VideoRecorderNew
  /\ now = Epoch /\ animFrames = 0
  /\ lastResults = NONE /\ handRun = 0 /\ wristRun = WristRunStart

NextWarmup == DetectHands(WarmupFrames, WarmupMaxTime)
SpecWarmup == InitActive /\ [][NextWarmup]_vars

NextSelection == DetectHands(SelectionFrames, SelectionMaxTime)
SpecSelection == InitActive /\ [][NextSelection]_vars

----------------------------------------------------------------------------
\* The scene of an active session: detection frames, animation frames, the
\* clock and the Stop button

SceneMaxVideoTime == 1
SceneMaxAnimFrames == 3
SceneMaxTicks == 2

NextScene ==
  \/ DetectHands(SessionFrames, SceneMaxVideoTime)
  \/ Animate(SceneMaxAnimFrames)
  \/ Tick(SceneMaxTicks)
  \/ StopClick

SpecScene == InitActive /\ [][NextScene]_vars

----------------------------------------------------------------------------
\* The VideoRecorder of an active session, driven through its public
\* methods startRecording, stopRecording and cleanup and by the events of
\* its MediaRecorder objects

RecorderMaxRecorders == 2
RecorderMaxChunks == 2

RecorderStart(maxRecorders) ==
  \E failure \in {"none", "construct", "start"} :
    /\ recorder.isRecording \/ failure = "construct"
         \/ Len(recorder.media) < maxRecorders
    /\ RecorderFrame(startRecording(recorder, failure))

RecorderStop == \E r \in {stopRecording(recorder)} : RecorderFrame(r)

RecorderCleanup == \E r \in {cleanup(recorder)} : RecorderFrame(r)

NextRecorder ==
  \/ RecorderStart(RecorderMaxRecorders)
  \/ RecorderStop
  \/ RecorderCleanup
  \/ MediaData(RecorderMaxChunks)
  \/ MediaEvent
  \/ MediaError
  \/ DrawFrame

SpecRecorder == InitActive /\ [][NextRecorder]_vars

----------------------------------------------------------------------------
\* The DynamicAudioEngine of an active session, driven through setEnabled
\* and update, one update per animation frame, with the scene at quarter
\* turns

AudioMaxFrames == 3
AudioMaxTicks == 2

\* identity, and turns about x and about y
AudioRotations ==
  {Zero, Vec(Quarter, 0, 0), Vec(3 * Quarter, 0, 0),
   Vec(0, Quarter, 0), Vec(0, 2 * Quarter, 0), Vec(0, 3 * Quarter, 0)}

\* the scene at rest, turning by one radian per second, or turning, panning
\* and zooming at once
AudioMetrics ==
  {[rotationSpeed |-> v, panSpeed |-> 0, zoomSpeed |-> 0] : v \in {0, U}}
    \cup {[rotationSpeed |-> U, panSpeed |-> U, zoomSpeed |-> U]}

AudioUpdate(maxFrames) ==
  /\ animFrames < maxFrames
  /\ animFrames' = animFrames + 1
  /\ \E r \in AudioRotations, metrics \in AudioMetrics :
       audio' \in update(audio, metrics, r, CameraDirection, now)
  /\ UNCHANGED <<gestureVars, animVars, sessionVars, ui, recorder, now,
                 historyVars>>

AudioSetEnabled ==
  /\ \E enabled \in BOOLEAN : audio' = setEnabled(audio, enabled)
  /\ UNCHANGED <<gestureVars, animVars, sessionVars, ui, recorder, now,
                 animFrames, historyVars>>

NextAudio ==
  \/ AudioUpdate(AudioMaxFrames)
  \/ AudioSetEnabled
  \/ Tick(AudioMaxTicks)

SpecAudio == InitActive /\ [][NextAudio]_vars

----------------------------------------------------------------------------
\* The audio engine driven by slow and by fast movement: the scene still, at
\* one radian (one unit) per second, or at twenty

LoudMaxFrames == 3
LoudMaxTicks == 2

LoudMetrics ==
  {[rotationSpeed |-> v, panSpeed |-> v, zoomSpeed |-> v] : v \in {0, U, 20 * U}}

LoudUpdate(maxFrames) ==
  /\ animFrames < maxFrames
  /\ animFrames' = animFrames + 1
  /\ \E r \in {Zero, Vec(0, Quarter, 0)}, metrics \in LoudMetrics :
       audio' \in update(audio, metrics, r, CameraDirection, now)
  /\ UNCHANGED <<gestureVars, animVars, sessionVars, ui, recorder, now,
                 historyVars>>

NextLoud ==
  \/ LoudUpdate(LoudMaxFrames)
  \/ AudioSetEnabled
  \/ Tick(LoudMaxTicks)

SpecLoud == InitActive /\ [][NextLoud]_vars

----------------------------------------------------------------------------
\* The life cycle of sessions from page load: the model load, the Start,
\* Stop and Record buttons, the camera request, the start of the video and
\* of the audio, and the detection loop

LifecycleMaxVideoTime == 1
LifecycleMaxStreams == 2
LifecycleMaxRecorders == 1

\* the click handler of the record button run while the button is hidden
\* (a click event dispatched by script: the listener is attached at page
\* load, whatever the button's class)
RecordClickHidden(maxRecorders) ==
  /\ ui.recordHidden
  /\ RecordClickHandler(maxRecorders)
  /\ UNCHANGED <<gestureVars, animVars, sessionVars, audio, now, animFrames,
                 historyVars>>

NextLifecycle ==
  \/ ModelLoaded
  \/ ModelLoadFailed
  \/ StartClick
  \/ CameraGranted(LifecycleMaxStreams)
  \/ CameraDenied
  \/ VideoPlaying(SessionFrames, LifecycleMaxVideoTime)
  \/ ResumeDone
  \/ ResumeFailed
  \/ DetectHands(SessionFrames, LifecycleMaxVideoTime)
  \/ StopClick
  \/ RecordClick(LifecycleMaxRecorders)
  \/ RecordClickHidden(LifecycleMaxRecorders)

SpecLifecycle == Init /\ [][NextLifecycle]_vars

----------------------------------------------------------------------------
\* A second hand joins late: the session after CALIBRATION_FRAME_COUNT
\* processed frames with one unlabelled hand at rest at WristB (a state of
\* SpecWarmup), then frames with that hand alone, with a second hand at
\* WristA or at WristC, or with no hand

WristC == Vec(2 * (U \div 5), U \div 5, 0)

LateStartTime == CALIBRATION_FRAME_COUNT - 1
LateMaxTime == 14

LateFrames ==
  {Detected(<<>>), Detected(<<HandAt(WristB, TRUE, "")>>)}
    \cup {Detected(<<HandAt(WristB, TRUE, ""), HandAt(w, TRUE, "")>>) :
            w \in {WristA, WristC}}

InitLateZoom ==
  /\ hand0Position = Zero /\ hand1Position = Zero
  /\ targetPan = Zero
  /\ targetRotation = RotationTarget(HandAt(WristB, TRUE, ""))
  /\ targetZoom = U
  /\ isHandControlled = TRUE
  /\ hand0Calibration = WristB /\ hand1Calibration = NONE
  /\ calibrationFrames = CALIBRATION_FRAME_COUNT
  /\ currentRotation = Zero /\ currentZoom = U /\ cubeGroup = Identity
  /\ previousRotation = Zero /\ previousPan = Zero /\ previousZoom = U
  /\ lastUpdateTime = Epoch
  /\ handLandmarker = "loaded" /\ modelLoad = "loaded"
  /\ isInitialized = TRUE /\ detectionLoopRunning = TRUE
  /\ currentStream = 1 /\ liveStreams = {1}
  /\ videoRecorder = "instance" /\ initPc = "idle"
  /\ detectPending = TRUE /\ lastVideoTime = LateStartTime
  /\ ui = [status |-> "1 hand detected", statusClass |-> "",
           startDisabled |-> TRUE, startText |-> "Starting...",
           startHidden |-> TRUE, stopHidden |-> FALSE,
           recordHidden |-> FALSE, recordText |-> "Start Recording"]
  /\ audio = setupRecordingDestination(initializeSynths(AudioEngineNew))
  /\ recorder = VideoRecorderNew
  /\ now = Epoch /\ animFrames = 0
  /\ lastResults = Detected(<<HandAt(WristB, TRUE, "")>>)
  /\ handRun = CALIBRATION_FRAME_COUNT /\ wristRun = WristRunStart

NextLateZoom == DetectHands(LateFrames, LateMaxTime)
SpecLateZoom == InitLateZoom /\ [][NextLateZoom]_vars

----------------------------------------------------------------------------
\* Properties of the calibration warm-up (SpecWarmup).  handRun is the number
\* of hand-present frames processed since the last frame with zero landmarks
\* (or since the page loaded); lastResults is the last frame processed.

\* C1: while fewer than CALIBRATION_FRAME_COUNT hand-present frames have
\* followed a no-hand frame or the start of the page, the offset of the
\* rotation hand is (0,0,0), the offset of a zoom hand that is present is
\* (0,0,0), and the pan target is (0,0,0).
WarmupOffsetsZero ==
  (handRun \in 1..(CALIBRATION_FRAME_COUNT - 1) /\ HandCount(lastResults) > 0)
    => /\ hand0Position = Zero
       /\ HandCount(lastResults) > 1 => hand1Position = Zero
       /\ targetPan = Zero

\* the ninth frame of a run, two hands, both away from their anchors
WarmupNinthFrame ==
  /\ handRun = CALIBRATION_FRAME_COUNT - 1
  /\ HandCount(lastResults) = 2
  /\ Hand(lastResults, 0).wrist # hand0Calibration
  /\ Hand(lastResults, 1).wrist # hand1Calibration
  /\ hand0Position = Zero /\ hand1Position = Zero /\ targetPan = Zero

\* C2: a processed frame with zero landmarks leaves the targets neutral, both
\* anchors null and the frame counter 0; the first hand-present frame after it
\* (or after the start of the page) leaves the counter 1, the rotation anchor
\* at that frame's rotation wrist, the zoom anchor at that frame's zoom wrist
\* (null without a zoom hand) and the rotation offset (0,0,0).
NoHandResetStep ==
  /\ (lastVideoTime' # lastVideoTime /\ lastResults' = Detected(<<>>))
       => /\ targetPan' = Zero /\ targetRotation' = Zero /\ targetZoom' = U
          /\ hand0Calibration' = NONE /\ hand1Calibration' = NONE
          /\ calibrationFrames' = 0
  /\ (handRun = 0 /\ handRun' = 1)
       => /\ calibrationFrames' = 1
          /\ hand0Calibration' = Hand(lastResults', 0).wrist
          /\ hand1Calibration' = IF HandCount(lastResults') > 1
                                 THEN Hand(lastResults', 1).wrist ELSE NONE
          /\ hand0Position' = Zero

NoHandReset == [][NoHandResetStep]_vars

\* a warm-up begun by one hand at a frame later than the second
WarmupRestarted ==
  /\ handRun = 1 /\ calibrationFrames = 1
  /\ lastVideoTime >= 2
  /\ HandCount(lastResults) = 1
  /\ hand0Calibration = Hand(lastResults, 0).wrist
  /\ hand1Calibration = NONE

\* targetPan.lerp(offset, 0.1) written out
Blend(a, b) == a + (b - a) \div 10

\* C8: a processed frame with exactly one hand, whatever its label, sets the
\* rotation target from that hand, moves the pan target a tenth of the way
\* to that hand's offset (its position relative to the anchor once the
\* warm-up is complete) and sets the zoom target to 1.0.
SingleHandStep ==
  (lastVideoTime' # lastVideoTime /\ HandCount(lastResults') = 1)
    => LET hand == Hand(lastResults', 0)
       IN  /\ targetRotation' = RotationTarget(hand)
           /\ targetZoom' = U
           /\ targetPan' = Vec(Blend(targetPan.x, hand0Position'.x),
                               Blend(targetPan.y, hand0Position'.y),
                               Blend(targetPan.z, hand0Position'.z))
           /\ calibrationFrames' >= CALIBRATION_FRAME_COUNT
                => hand0Position' =
                     RelativePosition(hand.wrist, hand0Calibration')

SingleHand == [][SingleHandStep]_vars

\* a lone hand labelled Right, away from its anchor, has moved the pan target
\* part of the way
SingleRightHandPans ==
  /\ handRun >= CALIBRATION_FRAME_COUNT
  /\ HandCount(lastResults) = 1
  /\ Hand(lastResults, 0).label = "Right"
  /\ hand0Position # Zero
  /\ targetPan # Zero /\ targetPan # hand0Position
  /\ targetZoom = U

----------------------------------------------------------------------------
\* Properties of the hand selection (SpecSelection)

\* C7: after a frame with two hands, one labelled Left and one Right, the
\* rotation target is the Left hand's and the zoom target the Right hand's,
\* in either order of the list; with no label at all the rotation target is
\* the first hand's and the zoom target the second's.
HandSelection ==
  (lastVideoTime >= 0 /\ HandCount(lastResults) = 2)
    => LET first == Hand(lastResults, 0)
           second == Hand(lastResults, 1)
       IN  /\ (first.label = "Left" /\ second.label = "Right")
                => /\ targetRotation = RotationTarget(first)
                   /\ targetZoom = ZoomTarget(second)
           /\ (first.label = "Right" /\ second.label = "Left")
                => /\ targetRotation = RotationTarget(second)
                   /\ targetZoom = ZoomTarget(first)
           /\ (first.label = "" /\ second.label = "")
                => /\ targetRotation = RotationTarget(first)
                   /\ targetZoom = ZoomTarget(second)

\* the Right hand listed first: the second hand turns, the first zooms
RightHandListedFirst ==
  /\ lastVideoTime >= 0 /\ HandCount(lastResults) = 2
  /\ Hand(lastResults, 0).label = "Right"
  /\ Hand(lastResults, 1).label = "Left"
  /\ targetRotation = RotationTarget(Hand(lastResults, 1))
  /\ targetRotation # RotationTarget(Hand(lastResults, 0))
  /\ targetZoom = ZoomTarget(Hand(lastResults, 0))
  /\ targetZoom # ZoomTarget(Hand(lastResults, 1))

----------------------------------------------------------------------------
\* Properties of the recorder (SpecRecorder)

\* the step in which the stop event of MediaRecorder id is handled
StopEventHandled(id) ==
  /\ Len(recorder'.media) = Len(recorder.media)
  /\ recorder.media[id].queue # <<>>
  /\ Head(recorder.media[id].queue) = "stop"
  /\ recorder'.media[id].queue = Tail(recorder.media[id].queue)

\* C3: when a stop event is handled with an empty chunk buffer, the status
\* "No recording data available" is shown as an error and no file is made;
\* with a chunk in the buffer exactly one file is made, of the buffered
\* chunks, and the buffer is empty afterwards.
StopOutcomeStep ==
  \A id \in 1..Len(recorder.media) :
    StopEventHandled(id)
      => IF Len(recorder.recordedChunks) = 0
         THEN /\ recorder'.files = recorder.files
              /\ ui'.status = "No recording data available"
              /\ ui'.statusClass = "error"
         ELSE /\ recorder'.files =
                   Append(recorder.files, recorder.recordedChunks)
              /\ recorder'.recordedChunks = <<>>
              /\ ui'.status = "Recording saved"

StopOutcome == [][StopOutcomeStep]_vars

\* both outcomes have happened: a file was saved by an earlier stop, the
\* last stop found no data
BothStopOutcomes ==
  /\ Len(recorder.files) = 1
  /\ Len(recorder.files[1]) > 0
  /\ recorder.recordedChunks = <<>>
  /\ ui.status = "No recording data available"

\* C4: startRecording on a recorder that is recording leaves the instance as
\* it is (the same MediaRecorder, the same chunks, still recording), and
\* stopRecording on a recorder that is not recording leaves it as it is (no
\* MediaRecorder stopped, no file, still idle).
RecorderNoOps ==
  /\ recorder.isRecording
       => \A failure \in {"none", "construct", "start"} :
            startRecording(recorder, failure) = recorder
  /\ ~recorder.isRecording => stopRecording(recorder) = recorder

\* a recording with data in the buffer, and an idle recorder that has
\* recorded before: the states in which the two calls have something to lose
RecordingWithChunks ==
  /\ recorder.isRecording
  /\ recorder.mediaRecorder = 2
  /\ recorder.media[2].state = "recording"
  /\ Len(recorder.recordedChunks) > 0
  /\ recorder.media[1].state = "inactive"

----------------------------------------------------------------------------
\* Properties of the audio engine (SpecAudio)

\* C9: a side detected with the scene at the identity rotation, the camera
\* looking down -z, is "front".
IdentityIsFront ==
  (audio.rotation = Zero /\ audio.currentSide # "center")
    => audio.currentSide = "front"

----------------------------------------------------------------------------
\* Properties of the session (Spec, SpecScene)

\* C5: once a session was stopped (the model had loaded and the landmarker
\* is gone), a Start whose camera request is granted goes on to load the
\* video.
RestartProceedsStep ==
  (/\ modelLoad = "loaded" /\ handLandmarker = NULL
   /\ initPc = "getUserMedia" /\ currentStream' # currentStream)
    => initPc' = "loadeddata"

RestartProceeds == [][RestartProceedsStep]_vars

\* C6: the step of stopCamera leaves target and current pan (0,0,0), target
\* and current rotation (0,0,0) and target and current zoom 1.0.
StopResetsTransformStep ==
  (isInitialized /\ ~isInitialized')
    => /\ targetPan' = Zero /\ cubeGroup'.position = Zero
       /\ targetRotation' = Zero /\ currentRotation' = Zero
       /\ targetZoom' = U /\ currentZoom' = U

StopResetsTransform == [][StopResetsTransformStep]_vars

\* C10: an animation frame leaves the engine enabled exactly if the session
\* is initialized, a hand controls the scene and the frame's rotation, pan
\* and zoom speeds add up to more than 0.01; any other frame leaves it
\* disabled with nothing triggered, every synth released and no melody
\* playing.
AudioGateStep ==
  animFrames' # animFrames
    => LET deltaTime == now - lastUpdateTime
           totalMovement ==
             calculateRotationSpeed(previousRotation, currentRotation',
                                    deltaTime)
             + calculatePanSpeed(previousPan, cubeGroup'.position, deltaTime)
             + calculateZoomSpeed(previousZoom, currentZoom', deltaTime)
           open == /\ isInitialized /\ isHandControlled
                   /\ totalMovement > U \div 100
       IN  /\ audio'.isEnabled <=> open
           /\ ~open
                => /\ audio'.triggered = {}
                   /\ \A s \in Sides : audio'.melodySequences[s] # "started"
                   /\ audio'.synthsReady
                        => /\ \A c \in Channels : audio'.gate[c] = "release"
                           /\ audio'.sideReleased

AudioGate == [][AudioGateStep]_vars

\* the gate open: a frame of a hand-controlled session has triggered a synth
AudioGateOpen ==
  /\ animFrames > 0
  /\ isInitialized /\ isHandControlled
  /\ audio.isEnabled /\ audio.triggered # {}

\* ---------------------------------------------------------------------
\* C11: per-channel debounce.  An update call triggers a channel only when
\* at least minTimeBetweenSounds ms have passed since the channel's
\* last-played timestamp, and the timestamp then becomes the time of the
\* call; a channel that is not triggered, by a refusal or otherwise, keeps
\* its timestamp, and so does every channel in a setEnabled call.  The
\* timestamps are therefore the times of the triggers, and successive
\* triggers of a channel are at least minTimeBetweenSounds ms apart.
DebounceStep ==
  IF animFrames' # animFrames
  THEN \A c \in Channels :
         IF c \in audio'.triggered
         THEN /\ now - audio.lastSoundTime[c] >= minTimeBetweenSounds
              /\ audio'.lastSoundTime[c] = now
         ELSE audio'.lastSoundTime[c] = audio.lastSoundTime[c]
  ELSE audio'.lastSoundTime = audio.lastSoundTime

Debounce == [][DebounceStep]_vars

\* the rotation channel, triggered one tick ago and still above the speed
\* threshold, was refused in the call that triggered pan and zoom
DebounceRefused ==
  /\ audio.triggered = {"pan", "zoom"}
  /\ audio.lastSoundTime["rotation"] = now - TickMs
  /\ audio.smoothedRotationSpeed >= MIN_SPEED_THRESHOLD

\* ---------------------------------------------------------------------
\* C12: camera denied.  When the camera request of a Start click is
\* rejected, the session does not start: isInitialized is false, the
\* detection loop is not running, no recorder exists and no stream was
\* added, the status is an error, and the Start button is visible and
\* enabled with its first label, so that the next click runs
\* initializeCamera from its beginning; the loaded model is untouched.
CameraDeniedStep ==
  (initPc = "getUserMedia" /\ initPc' = "idle" /\ liveStreams' = liveStreams)
    => /\ ~isInitialized' /\ ~detectionLoopRunning'
       /\ videoRecorder' = NULL /\ currentStream' = currentStream
       /\ ui'.statusClass = "error"
       /\ ui'.status =
            "Camera access denied. Please allow camera access and try again."
       /\ ~ui'.startDisabled /\ ~ui'.startHidden
       /\ ui'.startText = "Start Hand Tracking"
       /\ handLandmarker' = handLandmarker

CameraDeniedOutcome == [][CameraDeniedStep]_vars

\* the camera was denied while the model is loaded: Start can be clicked
CameraDeniedRetry ==
  /\ ui.status =
       "Camera access denied. Please allow camera access and try again."
  /\ ~isInitialized /\ initPc = "idle"
  /\ handLandmarker # NULL

\* ---------------------------------------------------------------------
\* C13: recorder not ready.  While no recorder exists (before a session
\* has started, or after it was stopped) a click on the record button
\* leaves the session, the gesture state, the scene, the audio engine and
\* the recorder as they are, starts no recording, and shows the status
\* "Please start hand tracking first" as an error.  With no recorder the
\* click is the only step that is neither a step of the start-up, of the
\* model load nor of the detection loop.
RecorderNotReadyStep ==
  (/\ videoRecorder = NULL
   /\ UNCHANGED <<initPc, modelLoad, isInitialized, detectPending,
                  lastVideoTime>>
   /\ ui' # ui)
    => /\ UNCHANGED <<gestureVars, animVars, sessionVars, audio, recorder>>
       /\ ~recorder'.isRecording
       /\ ui' = [ui EXCEPT !.status = "Please start hand tracking first",
                           !.statusClass = "error"]

RecorderNotReady == [][RecorderNotReadyStep]_vars

\* the click was rejected after a session was stopped
RecordClickRejected ==
  /\ ui.status = "Please start hand tracking first"
  /\ ui.statusClass = "error"
  /\ videoRecorder = NULL /\ handLandmarker = NULL /\ modelLoad = "loaded"
  /\ ~recorder.isRecording

\* ---------------------------------------------------------------------
\* C14: cancellation.  While detectionLoopRunning is false, as it is from
\* the return of stopCamera on, no step but the start of a session's video
\* detects anything (the closure's lastVideoTime and the last result
\* stay), calls processHandResults or changes hand positions, targets or
\* calibration: the callback left pending by stopCamera can only end, and
\* once it has ended no callback is scheduled again.
CancellationStep ==
  ~detectionLoopRunning /\ initPc # "loadeddata"
    => /\ UNCHANGED <<gestureVars, lastVideoTime, historyVars>>
       /\ ~detectPending => ~detectPending'

Cancellation == [][CancellationStep]_vars

\* the callback left pending by stopCamera has run and ended the loop, after
\* a frame had been processed in the session
LoopCancelled ==
  /\ ~detectPending /\ ~detectionLoopRunning /\ ~isInitialized
  /\ handLandmarker = NULL /\ modelLoad = "loaded"
  /\ lastVideoTime >= 0

\* ---------------------------------------------------------------------
\* C15: detection throttle.  An iteration of the detection loop that finds
\* the video timestamp of the previous detection detects nothing: hand
\* positions, targets, calibration, the last result and the count of
\* consecutive frames with hands are unchanged.  The timestamp moves only
\* forward, so the frames with hands counted since the last frame without
\* are never more than the timestamps seen: one landmark set at most for
\* each distinct timestamp.
ThrottleStep ==
  /\ lastVideoTime' = lastVideoTime => UNCHANGED <<gestureVars, historyVars>>
  /\ lastVideoTime' >= lastVideoTime
  /\ handRun' <= lastVideoTime' + 1

Throttle == [][ThrottleStep]_vars

\* every timestamp so far has given one landmark set with a hand, through
\* iterations with a new and with an unchanged timestamp
OneSetPerTimestamp ==
  /\ lastVideoTime >= 1
  /\ handRun = lastVideoTime + 1
  /\ detectPending /\ detectionLoopRunning

\* ---------------------------------------------------------------------
\* C16: the calibration anchor is a running average of
\* CALIBRATION_FRAME_COUNT frames per hand.  When both hands were visible in
\* each of the first CALIBRATION_FRAME_COUNT frames of a run, then from the
\* last of them on the anchor of the rotation hand and the anchor of the
\* zoom hand are each the arithmetic mean of that hand's
\* CALIBRATION_FRAME_COUNT wrist samples.
Times(p, n) == Vec(p.x * n, p.y * n, p.z * n)

AnchorIsMean ==
  (handRun >= CALIBRATION_FRAME_COUNT
     /\ wristRun.frames = CALIBRATION_FRAME_COUNT)
    => /\ Times(hand0Calibration, CALIBRATION_FRAME_COUNT) = wristRun.rotation
       /\ Times(hand1Calibration, CALIBRATION_FRAME_COUNT) = wristRun.zoom

\* ---------------------------------------------------------------------
\* C17: zoom mapping.  After every processed frame with a zoom hand the
\* zoom target is 0.5 + 12.5 d, d the distance from the thumb tip to the
\* index tip of the zoom hand (the hand labelled Right, or the second of
\* two unlabelled hands), whatever the pinch of the other hand: it is never
\* below 0.5 and exceeds 1 for an open pinch.
ZoomMapping ==
  (lastVideoTime >= 0 /\ HasZoomHand(lastResults))
    => LET zoomHand == Hand(lastResults, zoomHandIndex(lastResults))
           d == Distance(zoomHand.thumb, zoomHand.index)
       IN  /\ targetZoom * 10 = 5 * U + 125 * d
           /\ targetZoom >= U \div 2

\* the zoom hand's pinch is open by 0.1 and the rotation hand's is closed:
\* the target is 1.75
ZoomFromOpenPinch ==
  /\ lastVideoTime >= 0 /\ HandCount(lastResults) = 2
  /\ HasZoomHand(lastResults)
  /\ zoomHandIndex(lastResults) # rotationHandIndex(lastResults)
  /\ PinchDistance(Hand(lastResults, rotationHandIndex(lastResults))) = 0
  /\ PinchDistance(Hand(lastResults, zoomHandIndex(lastResults))) = U \div 10
  /\ targetZoom = U + (3 * U) \div 4

\* ---------------------------------------------------------------------
\* C18: warm-up of a hand that joins late.  The rotation hand has completed
\* its warm-up; fewer than CALIBRATION_FRAME_COUNT frames have been
\* processed since, so a zoom hand that has appeared has fewer than
\* CALIBRATION_FRAME_COUNT wrist samples in its anchor: its offset is
\* (0,0,0).
LateZoomOffsetZero ==
  lastVideoTime < LateStartTime + CALIBRATION_FRAME_COUNT
    => hand1Position = Zero

\* ---------------------------------------------------------------------
\* C19: melody playback.  After an update call made with the engine
\* enabled, the synths ready and a rotation speed at or above
\* MIN_SPEED_THRESHOLD (the call raises the smoothed rotation speed: of the
\* speeds 0 and 1 it was given 1), the side facing the camera is the
\* current side and its melody sequence is started, also when the engine
\* was disabled and enabled again since the sequence was made.
MelodyPlaysStep ==
  (/\ animFrames' # animFrames
   /\ audio.isEnabled /\ audio.synthsReady
   /\ audio'.smoothedRotationSpeed > audio.smoothedRotationSpeed)
    => /\ audio'.currentSide \in detectSceneSide(audio'.rotation, CameraDirection)
       /\ audio'.melodySequences[audio'.currentSide] = "started"

MelodyPlays == [][MelodyPlaysStep]_vars

\* ---------------------------------------------------------------------
\* C20: melody side switch.  After any sequence of update and setEnabled
\* calls no side other than the current side holds a melody sequence,
\* started or stopped: an update that finds another side in front has
\* stopped and removed the previous side's sequence, and at most one
\* melody sequence exists.
OneMelodySequence ==
  /\ \A s \in Sides :
       s # audio.currentSide => audio.melodySequences[s] = NULL
  /\ Cardinality({s \in Sides : audio.melodySequences[s] # NULL}) <= 1

OneMelodySequenceStep ==
  animFrames' # animFrames /\ audio'.currentSide # audio.currentSide
    => audio'.melodySequences[audio.currentSide] = NULL

SideSwitch == []OneMelodySequence /\ [][OneMelodySequenceStep]_vars

\* after three update calls the current side's sequence plays, and it is
\* the only one
MelodyOnCurrentSide ==
  /\ animFrames >= 3
  /\ audio.currentSide # "center"
  /\ audio.melodySequences[audio.currentSide] = "started"
  /\ Cardinality({s \in Sides : audio.melodySequences[s] # NULL}) = 1

\* ---------------------------------------------------------------------
\* C21: per-channel smoothing.  In every update call of the enabled engine
\* with ready synths each smoothed speed becomes 0.85 of its previous value
\* plus 0.15 of the raw speed of the call, for one of the metrics the call
\* may have been given; with a raw speed of zero the smoothed speed decays.
SmoothingStep ==
  (animFrames' # animFrames /\ audio.isEnabled /\ audio.synthsReady)
    => \E metrics \in AudioMetrics :
         /\ audio'.smoothedRotationSpeed =
              smoothValue(metrics.rotationSpeed, audio.smoothedRotationSpeed)
         /\ audio'.smoothedPanSpeed =
              smoothValue(metrics.panSpeed, audio.smoothedPanSpeed)
         /\ audio'.smoothedZoomSpeed =
              smoothValue(metrics.zoomSpeed, audio.smoothedZoomSpeed)

Smoothing == [][SmoothingStep]_vars

\* ---------------------------------------------------------------------
\* C22: retry after a failed model load.  The click on the button labelled
\* Retry starts the failed initialization again: the model load is under
\* way after the click, and the session never ends up, camera granted,
\* waiting for a model that nothing is loading.
RetryReloadsStep ==
  (modelLoad = "failed" /\ initPc = "idle" /\ initPc' = "getUserMedia")
    => modelLoad' = "loading"

RetryReloads ==
  /\ [][RetryReloadsStep]_vars
  /\ [](modelLoad = "failed"
          => ui.status # "Model not loaded yet. Please wait...")

\* ---------------------------------------------------------------------
\* C23: volume ceiling.  The last volume written to the rotation, pan and
\* zoom synths and the volume the notes of a melody sequence write to a
\* side synth are at most 0 dB, however fast the scene moves.
VolumeCeiling ==
  /\ \A c \in Channels : audio.volume[c] <= 0
  /\ audio.melodyVolume <= 0

\* the ceiling is in force: the rotation synth was triggered at a smoothed
\* speed whose linear mapping is above 0 dB, and a melody plays that was
\* made at such a speed
VolumeClipped ==
  /\ "rotation" \in audio.triggered
  /\ audio.smoothedRotationSpeed * 15 - 25 * U > 0
  /\ audio.volume["rotation"] = 0
  /\ audio.melodySequences[audio.currentSide] = "started"
  /\ audio.melodyVolume = 0

\* ---------------------------------------------------------------------
\* C24: session stop during a recording.  stopCamera, called while a
\* recording is in progress, stops the recording and leaves the buffered
\* chunks in the buffer, for the stop event of the MediaRecorder to
\* assemble them.
StopKeepsChunksStep ==
  (isInitialized /\ ~isInitialized' /\ recorder.isRecording)
    => /\ ~recorder'.isRecording
       /\ recorder'.recordedChunks = recorder.recordedChunks

StopKeepsChunks == [][StopKeepsChunksStep]_vars

\* ---------------------------------------------------------------------
\* C25: recordings are isolated.  While a recording is in progress its
\* buffer holds chunks of its own MediaRecorder only, every artifact is made
\* of the chunks of one MediaRecorder, and an event of an earlier
\* MediaRecorder neither empties the buffer nor makes an artifact.
SameRecorder(chunks) ==
  \A i, j \in 1..Len(chunks) : chunks[i] = chunks[j]

RecordingsIsolatedStep ==
  \A id \in 1..Len(recorder.media) :
    (/\ recorder.isRecording /\ recorder'.isRecording
     /\ recorder'.mediaRecorder = recorder.mediaRecorder
     /\ id # recorder.mediaRecorder
     /\ recorder.media[id].queue # <<>>
     /\ recorder'.media[id].queue = Tail(recorder.media[id].queue))
      => /\ recorder'.recordedChunks = recorder.recordedChunks
         /\ recorder'.files = recorder.files

RecordingsIsolated ==
  /\ [](recorder.isRecording =>
          \A i \in 1..Len(recorder.recordedChunks) :
            recorder.recordedChunks[i] = recorder.mediaRecorder)
  /\ [](\A f \in 1..Len(recorder.files) : SameRecorder(recorder.files[f]))
  /\ [][RecordingsIsolatedStep]_vars

\* ---------------------------------------------------------------------
\* C26: the recorder's flag matches its MediaRecorder.  isCurrentlyRecording()
\* is true only while the current MediaRecorder is in state "recording", or
\* has stopped by itself and its last events are still to be delivered:
\* once they are, the VideoRecorder is idle.
FlagMatchesMedia ==
  recorder.isRecording
    => /\ recorder.mediaRecorder # 0
       /\ \/ recorder.media[recorder.mediaRecorder].state = "recording"
          \/ recorder.media[recorder.mediaRecorder].queue # <<>>

\* ---------------------------------------------------------------------
\* C27: distinct control hands.  After every processed frame with two
\* hands, whatever their labels, the rotation hand and the zoom hand are
\* two different entries of the landmark list.
DistinctControlHands ==
  (lastVideoTime >= 0 /\ HandCount(lastResults) = 2)
    => /\ HasZoomHand(lastResults)
       /\ rotationHandIndex(lastResults) # zoomHandIndex(lastResults)

\* ---------------------------------------------------------------------
\* C28: a failed start leaves no half-started session.  When
\* initializeCamera ends in its catch block (error status, Start enabled
\* again), whichever step failed, isInitialized is false and the detection
\* loop is not running.
FailedStartStep ==
  (initPc # "idle" /\ initPc' = "idle" /\ ui'.statusClass = "error")
    => ~isInitialized' /\ ~detectionLoopRunning'

FailedStart == [][FailedStartStep]_vars

\* ---------------------------------------------------------------------
\* C29: camera stream ownership.  A stream with live tracks is the one
\* currentStream refers to, and it is live only while a session is being
\* initialized or is active, where stopCamera can stop it.
StreamOwned ==
  /\ liveStreams \subseteq {currentStream}
  /\ liveStreams # {} => (initPc # "idle" \/ isInitialized)

\* ---------------------------------------------------------------------
\* C30: return to neutral after the hands are lost.  In an animation frame
\* without hand control a roll (z rotation) left by the pinch moves toward
\* 0: it does not stay at its last hand-controlled value.
RollReturnsStep ==
  (animFrames' # animFrames /\ ~isHandControlled /\ currentRotation.z # 0)
    => Abs(currentRotation'.z) < Abs(currentRotation.z)

RollReturns == [][RollReturnsStep]_vars

====
